---- MODULE Spec2Model ----
(***************************************************************************)
(* Tabular reinforcement-learning examples: the two grid worlds, the       *)
(* dynamic-programming agent, the Monte Carlo agent and the three          *)
(* temporal-difference agents, as state machines.                          *)
(*                                                                         *)
(* Each script of the repository is a program of its own.  The variable    *)
(* alg says which one runs; these specifications cover them:               *)
(*   SpecEnv    GridworldWithObstacles driven by arbitrary reset/step calls*)
(*   SpecTrain  the train() loop of one of the four learners               *)
(*   SpecMC     MonteCarloAgent.train over several episodes                 *)
(*   SpecMCLong MonteCarloAgent.train with longer episodes                  *)
(*   SpecNew    a learner's constructor with arbitrary arguments, and train *)
(*   SpecRollout  the rollout loop of a script, under any policy            *)
(*   SpecDP     DynamicProgrammingAgent: construction, train, solve_env    *)
(*                                                                         *)
(* Numbers.  Python floats are modelled in two ways, both stated here:     *)
(*   - rationals <<n, d>> in lowest terms with d > 0 (rewards, gamma,      *)
(*     epsilon, alpha, and every value of the Monte Carlo agent): exact    *)
(*     real arithmetic, no rounding;                                       *)
(*   - fixed point, an integer x standing for x / Scale (the Q tables of   *)
(*     the temporal-difference agents and the V table of the dynamic-      *)
(*     programming agent): every product is rounded down to a multiple of  *)
(*     1 / Scale, which stands for the rounding of a float operation.      *)
(***************************************************************************)
EXTENDS Integers, Sequences, FiniteSets, TLC

VARIABLES
    alg,        \* the program that runs
    agent,      \* the learner object's configuration: alpha, gamma, epsilon
    args,       \* the arguments of train: num_episodes and max_steps
    pc,         \* position inside the running handler
    env,        \* the GridworldWithObstacles object (its fields)
    ret,        \* what the last env.step call was given and returned
    Q, Q1, Q2,  \* action-value tables (Q: SARSA, Q-learning, Monte Carlo)
    C, pi,      \* Monte Carlo: cumulative weights and target policy
    state, action, steps, episodes,   \* locals of train / generate_episode
    episode,    \* Monte Carlo: the episode being generated / updated from
    t, G, W,    \* Monte Carlo update: loop index, return, importance weight
    hist,       \* history of the calls (read by the properties only)
    dp          \* the DynamicProgrammingAgent object and its loop locals

vars == <<alg, agent, args, pc, env, ret, Q, Q1, Q2, C, pi, state, action, steps, episodes,
          episode, t, G, W, hist, dp>>

envVars   == <<env, ret>>
tableVars == <<Q, Q1, Q2, C, pi>>
loopVars  == <<state, action, steps, episodes>>
mcVars    == <<episode, t, G, W>>

(***************************************************************************)
(* Bounds of the model                                                     *)
(***************************************************************************)
\* side of the grid the learners are trained on
GridN == 2
\* max_steps given to train / generate_episode
MaxSteps == 2
\* num_episodes given to train, in SpecTrain and in SpecMC
NumEpisodes == 1
MCEpisodes == 2
\* max_steps of the one long Monte Carlo episode of SpecMCLong
MCSteps == 3
\* most env.step calls of a rollout
MaxCounter == 40

(***************************************************************************)
(* Numbers                                                                 *)
(***************************************************************************)
Abs(x) == IF x < 0 THEN -x ELSE x

RECURSIVE GCD(_, _)
GCD(a, b) == IF b = 0 THEN a ELSE GCD(b, a % b)

\* the rational n / d in lowest terms, d > 0
Rat(n, d) ==
    LET s == IF d < 0 THEN -1 ELSE 1
        g == GCD(Abs(n), Abs(d))
    IN  <<(s * n) \div g, (s * d) \div g>>

RZero == <<0, 1>>
ROne  == <<1, 1>>
RInt(n) == <<n, 1>>

RAdd(p, q) ==
    LET g == GCD(p[2], q[2])
    IN  Rat(p[1] * (q[2] \div g) + q[1] * (p[2] \div g), (p[2] \div g) * q[2])
RNeg(p) == <<-p[1], p[2]>>
RSub(p, q) == RAdd(p, RNeg(q))
RMul(p, q) ==
    LET a == Rat(p[1], q[2])
        b == Rat(q[1], p[2])
    IN  Rat(a[1] * b[1], a[2] * b[2])
\* p / q for q # 0
RDiv(p, q) == RMul(p, Rat(q[2], q[1]))
RLess(p, q) == RSub(p, q)[1] < 0
RPos(p) == p[1] > 0

\* resolution of the fixed-point numbers: x stands for x / Scale
Scale == 10^6
\* the fixed-point number nearest below the rational p
Fix(p) == (p[1] * Scale) \div p[2]
\* the product of the rational p and the fixed-point number x, rounded down
FMul(p, x) == (p[1] * x) \div p[2]

(***************************************************************************)
(* environments.py: GridworldAction                                        *)
(***************************************************************************)
\* list(GridworldAction): the members in definition order
ActionList == <<"NORTH", "SOUTH", "WEST", "EAST">>
Actions == {ActionList[i] : i \in 1..Len(ActionList)}

(***************************************************************************)
(* environments.py: GridworldWithObstacles.  Positions are <<y, x>>.       *)
(***************************************************************************)
HardObstacles ==
    LET shelves == {<<y, x>> : y \in {2, 5, 8, 11, 14, 17},
                               x \in {c \in 0..19 : c % 5 # 0}}
        aisles  == {<<y, x>> : y \in {r \in 0..19 : r % 5 # 0},
                               x \in {3, 7, 11, 15, 19}}
        spurs   == {<<1, 2>>, <<1, 3>>, <<4, 6>>, <<5, 6>>, <<6, 8>>, <<7, 8>>,
                    <<9, 12>>, <<10, 12>>, <<12, 14>>, <<13, 14>>, <<15, 16>>,
                    <<16, 16>>, <<17, 1>>, <<18, 1>>}
        opened  == {<<0, 0>>, <<19, 19>>, <<19, 4>>, <<2, 18>>, <<2, 14>>,
                    <<2, 13>>, <<5, 13>>, <<5, 14>>, <<6, 14>>, <<17, 16>>,
                    <<18, 16>>, <<8, 16>>, <<5, 16>>, <<11, 18>>, <<14, 17>>,
                    <<17, 17>>}
    IN  ((shelves \cup aisles \cup spurs) \ opened) \cup {<<14, 0>>}

DefaultObstacles ==
    {<<1, 3>>, <<2, 3>>, <<3, 3>>, <<4, 3>>, <<6, 1>>, <<6, 2>>, <<6, 3>>,
     <<6, 5>>, <<6, 6>>, <<6, 7>>, <<6, 8>>, <<4, 6>>, <<5, 6>>, <<6, 6>>,
     <<8, 2>>, <<9, 2>>}

\* GridworldWithObstacles(hard)
GridworldWithObstacles(hard) ==
    IF hard
    THEN [width |-> 20, height |-> 20, start_pos |-> <<0, 0>>,
          goal_pos |-> <<19, 19>>, obstacles |-> HardObstacles,
          agent_pos |-> <<0, 0>>]
    ELSE [width |-> 10, height |-> 10, start_pos |-> <<0, 0>>,
          goal_pos |-> <<9, 9>>, obstacles |-> DefaultObstacles,
          agent_pos |-> <<0, 0>>]

\* The grid the learners are trained on: the default layout cut down to its
\* top-left n x n cells, with the goal at the end of the first row, n - 1
\* steps from the start, so that an episode can end before max_steps.
TrainingGridworld(n) ==
    [width |-> n, height |-> n, start_pos |-> <<0, 0>>,
     goal_pos |-> <<0, n - 1>>,
     obstacles |-> {o \in DefaultObstacles : o[1] < n /\ o[2] < n}
                       \ {<<0, 0>>, <<0, n - 1>>},
     agent_pos |-> <<0, 0>>]

\* an is_terminal that tests the start instead of the goal
is_terminal_at_start(e, s) == s = e.start_pos

\* is_terminal(state)
is_terminal(e, s) == s = e.goal_pos

\* the cell step() aims at
NextPos(pos, a) ==
    CASE a = "NORTH" -> <<pos[1] - 1, pos[2]>>
      [] a = "SOUTH" -> <<pos[1] + 1, pos[2]>>
      [] a = "EAST"  -> <<pos[1], pos[2] + 1>>
      [] a = "WEST"  -> <<pos[1], pos[2] - 1>>
      [] OTHER       -> pos

\* a test that lets the agent walk through obstacles
ValidMoveThroughObstacles(e, p) ==
    /\ 0 <= p[1] /\ p[1] < e.height
    /\ 0 <= p[2] /\ p[2] < e.width

\* the boundary and obstacle test of step()
ValidMove(e, p) ==
    /\ 0 <= p[1] /\ p[1] < e.height
    /\ 0 <= p[2] /\ p[2] < e.width
    /\ p \notin e.obstacles

\* reward = 10 if done else -0.1
BaseReward(done) == IF done THEN RInt(10) ELSE Rat(-1, 10)

\* a reward without the penalty of an invalid move
UnpenalizedReward(r, valid_move) == r

\* reward = reward - 2 if not valid_move else reward
PenalizedReward(r, valid_move) == IF valid_move THEN r ELSE RSub(r, RInt(2))

\* step(action): the environment after the call and the returned tuple
step(e, a) ==
    LET next_pos   == NextPos(e.agent_pos, a)
        valid_move == ValidMove(e, next_pos)
        new_pos    == IF valid_move THEN next_pos ELSE e.agent_pos
        done       == is_terminal(e, new_pos)
        reward     == PenalizedReward(BaseReward(done), valid_move)
    IN  [env |-> [e EXCEPT !.agent_pos = new_pos],
         ret |-> [pos |-> e.agent_pos, action |-> a, next_state |-> new_pos,
                  reward |-> reward, done |-> done]]

\* reset()
reset(e) == [e EXCEPT !.agent_pos = e.start_pos]

NoRet == [pos |-> <<0, 0>>, action |-> "none", next_state |-> <<0, 0>>,
          reward |-> RZero, done |-> FALSE]

(***************************************************************************)
(* Tables shared by the learners                                           *)
(***************************************************************************)
\* a row that holds the first action only
ZeroRowPartial(zero) == [a \in {ActionList[1]} |-> zero]
\* {a: 0.0 for a in self.actions}
ZeroRow(zero) == [a \in Actions |-> zero]

\* table T with key k set to v
Put(T, k, v) == [x \in DOMAIN T \cup {k} |-> IF x = k THEN v ELSE T[x]]

\* max(row, key=row.get) on a row of fixed-point values: the first key, in
\* insertion order, of maximal value
ArgMax(row) ==
    LET keys == {i \in 1..Len(ActionList) : ActionList[i] \in DOMAIN row}
        best(i) == /\ \A j \in keys : row[ActionList[j]] <= row[ActionList[i]]
                   /\ \A j \in keys : j < i => row[ActionList[j]] < row[ActionList[i]]
    IN  ActionList[CHOOSE i \in keys : best(i)]

\* max(row, key=row.get) on a row of rationals
ArgMaxRat(row) ==
    LET keys == {i \in 1..Len(ActionList) : ActionList[i] \in DOMAIN row}
        best(i) == /\ \A j \in keys : ~RLess(row[ActionList[i]], row[ActionList[j]])
                   /\ \A j \in keys : j < i => RLess(row[ActionList[j]], row[ActionList[i]])
    IN  ActionList[CHOOSE i \in keys : best(i)]

\* The actions an epsilon-greedy draw can return: random.random() < epsilon is
\* possible when epsilon > 0, its negation when epsilon < 1.
EpsilonGreedy(eps, greedy) ==
    (IF RPos(eps) THEN Actions ELSE {}) \cup
    (IF RLess(eps, ROne) THEN {greedy} ELSE {})

\* a loop test that admits one iteration too many
StepsLeftOffByOne(n, max_steps) == n <= max_steps
\* range(max_steps) / while ... steps < max_steps: another iteration is due
StepsLeft(n, max_steps) == n < max_steps

(***************************************************************************)
(* temporal-difference/*.py                                                *)
(***************************************************************************)
\* SarsaAgent(env), QLearningAgent(env), DoubleQLearningAgent(env): the
\* defaults alpha=0.1, gamma=0.9, epsilon=0.1
DefaultAgent == [alpha |-> Rat(1, 10), gamma |-> Rat(9, 10), epsilon |-> Rat(1, 10)]

\* self.alpha, self.gamma, self.epsilon
alpha   == agent.alpha
gamma   == agent.gamma
epsilon == agent.epsilon

\* SarsaAgent.initialize_state, QLearningAgent.initialize_state
td_initialize_state(q, s) ==
    IF s \in DOMAIN q THEN q ELSE Put(q, s, ZeroRow(0))

\* the greedy branch of choose_action, after initialize_state
td_greedy(q, s) == ArgMax(q[s])

\* a sarsa_update that bootstraps on the largest value of the next state
sarsa_update_max(q, s, a, reward, next_state, next_action) ==
    LET q0 == td_initialize_state(q, next_state)
        current_estimate == q0[s][a]
        target == Fix(reward) + FMul(gamma, q0[next_state][ArgMax(q0[next_state])])
    IN  [q0 EXCEPT ![s][a] = @ + FMul(alpha, target - current_estimate)]

\* SarsaAgent.sarsa_update
sarsa_update(q, s, a, reward, next_state, next_action) ==
    LET q0 == td_initialize_state(q, next_state)
        current_estimate == q0[s][a]
        target == Fix(reward) + FMul(gamma, q0[next_state][next_action])
    IN  [q0 EXCEPT ![s][a] = @ + FMul(alpha, target - current_estimate)]

\* QLearningAgent.q_learning_update
q_learning_update(q, s, a, reward, next_state) ==
    LET q0 == td_initialize_state(q, next_state)
        current_estimate == q0[s][a]
        best_next_action == ArgMax(q0[next_state])
        target == Fix(reward) + FMul(gamma, q0[next_state][best_next_action])
    IN  [q0 EXCEPT ![s][a] = @ + FMul(alpha, target - current_estimate)]

\* DoubleQLearningAgent.initialize_state
dq_initialize_state(q1, q2, s) ==
    IF s \in DOMAIN q1
    THEN [Q1 |-> q1, Q2 |-> q2]
    ELSE [Q1 |-> Put(q1, s, ZeroRow(0)), Q2 |-> Put(q2, s, ZeroRow(0))]

\* the greedy branch of DoubleQLearningAgent.choose_action
dq_greedy(q1, q2, s) ==
    LET q_sum == [a \in Actions |-> q1[s][a] + q2[s][a]]
    IN  ArgMax(q_sum)

\* a double_q_update that evaluates the next action in the table that chose it
double_q_update_same_table(q1, q2, s, a, reward, next_state, heads) ==
    LET i == dq_initialize_state(q1, q2, next_state)
    IN  IF heads
        THEN LET best_next == ArgMax(i.Q1[next_state])
                 target == Fix(reward) + FMul(gamma, i.Q1[next_state][best_next])
             IN  [Q1 |-> [i.Q1 EXCEPT ![s][a] = @ + FMul(alpha, target - @)],
                  Q2 |-> i.Q2]
        ELSE LET best_next == ArgMax(i.Q2[next_state])
                 target == Fix(reward) + FMul(gamma, i.Q2[next_state][best_next])
             IN  [Q1 |-> i.Q1,
                  Q2 |-> [i.Q2 EXCEPT ![s][a] = @ + FMul(alpha, target - @)]]

\* DoubleQLearningAgent.double_q_update; heads is random.random() < 0.5
double_q_update(q1, q2, s, a, reward, next_state, heads) ==
    LET i == dq_initialize_state(q1, q2, next_state)
    IN  IF heads
        THEN LET best_next == ArgMax(i.Q1[next_state])
                 estimate_of_other_q == i.Q2[next_state][best_next]
                 target == Fix(reward) + FMul(gamma, estimate_of_other_q)
             IN  [Q1 |-> [i.Q1 EXCEPT ![s][a] = @ + FMul(alpha, target - @)],
                  Q2 |-> i.Q2]
        ELSE LET best_next == ArgMax(i.Q2[next_state])
                 estimate_of_other_q == i.Q1[next_state][best_next]
                 target == Fix(reward) + FMul(gamma, estimate_of_other_q)
             IN  [Q1 |-> i.Q1,
                  Q2 |-> [i.Q2 EXCEPT ![s][a] = @ + FMul(alpha, target - @)]]

(***************************************************************************)
(* monte-carlo.py                                                          *)
(***************************************************************************)
\* MonteCarloAgent(env, epsilon=0.2): gamma keeps its default 0.9
ScriptMCAgent == [gamma |-> Rat(9, 10), epsilon |-> Rat(1, 5)]

\* self.gamma, self.epsilon
mc_gamma   == agent.gamma
mc_epsilon == agent.epsilon

\* an initialize_state whose C row holds the first action only
mc_initialize_state_partial(q, c, p, s) ==
    IF s \in DOMAIN q
    THEN [Q |-> q, C |-> c, pi |-> p]
    ELSE [Q |-> Put(q, s, ZeroRow(RZero)), C |-> Put(c, s, ZeroRowPartial(RZero)),
          pi |-> Put(p, s, ActionList[1])]

\* MonteCarloAgent.initialize_state
mc_initialize_state(q, c, p, s) ==
    IF s \in DOMAIN q
    THEN [Q |-> q, C |-> c, pi |-> p]
    ELSE [Q |-> Put(q, s, ZeroRow(RZero)), C |-> Put(c, s, ZeroRow(RZero)),
          pi |-> Put(p, s, ActionList[1])]

\* the two return values of get_behavior_policy_prob for self.epsilon = eps
behavior_policy_prob(eps, is_greedy) ==
    LET n == RInt(Len(ActionList))
    IN  IF is_greedy
        THEN RAdd(RSub(ROne, eps), RDiv(eps, n))
        ELSE RDiv(eps, n)

\* MonteCarloAgent.get_behavior_policy_prob, after initialize_state
get_behavior_policy_prob(p, s, a) == behavior_policy_prob(mc_epsilon, a = p[s])

\* the iteration with the division before the increment of C(s, a)
mc_update_step_divide_first(q, c, p, s, a, reward, g, w) ==
    LET g1  == RAdd(RMul(mc_gamma, g), reward)
        c1  == [c EXCEPT ![s][a] = RAdd(@, w)]
        qsa == q[s][a]
        out(q1, p1, w1, how) ==
            [Q |-> q1, C |-> c1, pi |-> p1, G |-> g1, W |-> w1,
             divisor |-> c[s][a], outcome |-> how]
    IN  IF c[s][a][1] = 0
        THEN out(q, p, w, "ZeroDivisionError")
        ELSE LET q1 == [q EXCEPT ![s][a] =
                           RAdd(@, RMul(RDiv(w, c[s][a]), RSub(g1, qsa)))]
                 p1 == [p EXCEPT ![s] = ArgMaxRat(q1[s])]
                 prob == get_behavior_policy_prob(p1, s, a)
             IN  IF a # p1[s] THEN out(q1, p1, w, "break")
                 ELSE out(q1, p1, RDiv(w, prob), "continue")

\* the iteration without the early stop
mc_update_step_no_break(q, c, p, s, a, reward, g, w) ==
    LET g1  == RAdd(RMul(mc_gamma, g), reward)
        c1  == [c EXCEPT ![s][a] = RAdd(@, w)]
        q1  == [q EXCEPT ![s][a] =
                   RAdd(@, RMul(RDiv(w, c1[s][a]), RSub(g1, q[s][a])))]
        p1  == [p EXCEPT ![s] = ArgMaxRat(q1[s])]
    IN  [Q |-> q1, C |-> c1, pi |-> p1, G |-> g1,
         W |-> RDiv(w, get_behavior_policy_prob(p1, s, a)),
         divisor |-> c1[s][a], outcome |-> "continue"]

\* the iteration with the step size W in place of W / C(s, a)
mc_update_step_unweighted(q, c, p, s, a, reward, g, w) ==
    LET g1  == RAdd(RMul(mc_gamma, g), reward)
        c1  == [c EXCEPT ![s][a] = RAdd(@, w)]
        q1  == [q EXCEPT ![s][a] = RAdd(@, RMul(w, RSub(g1, q[s][a])))]
        p1  == [p EXCEPT ![s] = ArgMaxRat(q1[s])]
        out(w1, how) ==
            [Q |-> q1, C |-> c1, pi |-> p1, G |-> g1, W |-> w1,
             divisor |-> c1[s][a], outcome |-> how]
    IN  IF a # p1[s] THEN out(w, "break")
        ELSE out(RDiv(w, get_behavior_policy_prob(p1, s, a)), "continue")

\* the iteration with the weight update ahead of the early stop
mc_update_step_weight_first(q, c, p, s, a, reward, g, w) ==
    LET g1  == RAdd(RMul(mc_gamma, g), reward)
        c1  == [c EXCEPT ![s][a] = RAdd(@, w)]
        q1  == [q EXCEPT ![s][a] =
                   RAdd(@, RMul(RDiv(w, c1[s][a]), RSub(g1, q[s][a])))]
        p1  == [p EXCEPT ![s] = ArgMaxRat(q1[s])]
        w1  == RDiv(w, get_behavior_policy_prob(p1, s, a))
    IN  [Q |-> q1, C |-> c1, pi |-> p1, G |-> g1, W |-> w1,
         divisor |-> c1[s][a],
         outcome |-> IF a # p1[s] THEN "break" ELSE "continue"]

\* the iteration without the refresh of pi[state]
mc_update_step_stale_pi(q, c, p, s, a, reward, g, w) ==
    LET g1  == RAdd(RMul(mc_gamma, g), reward)
        c1  == [c EXCEPT ![s][a] = RAdd(@, w)]
        q1  == [q EXCEPT ![s][a] =
                   RAdd(@, RMul(RDiv(w, c1[s][a]), RSub(g1, q[s][a])))]
        out(w1, how) ==
            [Q |-> q1, C |-> c1, pi |-> p, G |-> g1, W |-> w1,
             divisor |-> c1[s][a], outcome |-> how]
    IN  IF a # p[s] THEN out(w, "break")
        ELSE out(RDiv(w, get_behavior_policy_prob(p, s, a)), "continue")

\* One iteration of the backward loop of MonteCarloAgent.update, for the step
\* (s, a, reward) and the loop's G and W: the tables and locals after it, the
\* divisor it used, and how the iteration ended.
mc_update_step(q, c, p, s, a, reward, g, w) ==
    LET g1  == RAdd(RMul(mc_gamma, g), reward)
        c1  == [c EXCEPT ![s][a] = RAdd(@, w)]
        qsa == q[s][a]
        out(q1, p1, w1, how) ==
            [Q |-> q1, C |-> c1, pi |-> p1, G |-> g1, W |-> w1,
             divisor |-> c1[s][a], outcome |-> how]
    IN  IF c1[s][a][1] = 0
        THEN out(q, p, w, "ZeroDivisionError")
        ELSE LET q1 == [q EXCEPT ![s][a] =
                           RAdd(@, RMul(RDiv(w, c1[s][a]), RSub(g1, qsa)))]
                 p1 == [p EXCEPT ![s] = ArgMaxRat(q1[s])]
                 prob == get_behavior_policy_prob(p1, s, a)
             IN  IF a # p1[s] THEN out(q1, p1, w, "break")
                 ELSE IF prob[1] = 0 THEN out(q1, p1, w, "ZeroDivisionError")
                 ELSE out(q1, p1, RDiv(w, prob), "continue")

(***************************************************************************)
(* History: what the properties read and the code does not                 *)
(***************************************************************************)
NoUpd == [state |-> <<0, 0>>, action |-> "none", t |-> 0, G |-> RZero,
          W |-> RZero, C_old |-> RZero, Q_old |-> RZero, divisor |-> RZero,
          outcome |-> "none"]
\* updated: the (state, action) pairs whose value an update has written
\* Q_call, C_call: Q and C when the running MonteCarloAgent.update was called
\* last: the latest iteration of the backward loop
\* sumWG: per pair, the sum of W * G over the iterations that processed it
\* td: the latest update of a temporal-difference learner: its arguments
\*     (next_action for SARSA only), the coin of double_q_update, and the
\*     tables when the update was called
NoTD == [state |-> <<0, 0>>, action |-> "none", reward |-> RZero,
         next_state |-> <<0, 0>>, next_action |-> "none", heads |-> FALSE,
         Q |-> <<>>, Q1 |-> <<>>, Q2 |-> <<>>]
NoHist == [updated |-> {}, Q_call |-> <<>>, C_call |-> <<>>, last |-> NoUpd,
           sumWG |-> <<>>, td |-> NoTD]

NoDP == [pc |-> "none"]
NoAgent == [class |-> "none"]
NoArgs == [num_episodes |-> 0, max_steps |-> 0]

(***************************************************************************)
(* SpecEnv: GridworldWithObstacles under arbitrary calls                   *)
(***************************************************************************)
Idle ==
    /\ Q = <<>> /\ Q1 = <<>> /\ Q2 = <<>> /\ C = <<>> /\ pi = <<>>
    /\ state = <<0, 0>> /\ action = "none" /\ steps = 0 /\ episodes = 0
    /\ episode = <<>> /\ t = 0 /\ G = RZero /\ W = ROne
    /\ hist = NoHist

InitEnv ==
    /\ alg = "env" /\ pc = "calls" /\ args = NoArgs /\ agent = NoAgent
    /\ env \in {GridworldWithObstacles(FALSE), GridworldWithObstacles(TRUE)}
    /\ ret = NoRet
    /\ Idle /\ dp = NoDP

EnvReset ==
    /\ alg = "env"
    /\ env' = reset(env)
    /\ ret' = NoRet
    /\ UNCHANGED <<alg, agent, args, pc, tableVars, loopVars, mcVars, hist, dp>>

EnvStep ==
    /\ alg = "env"
    /\ \E a \in Actions :
         /\ env' = step(env, a).env
         /\ ret' = step(env, a).ret
    /\ UNCHANGED <<alg, agent, args, pc, tableVars, loopVars, mcVars, hist, dp>>

NextEnv == EnvReset \/ EnvStep

SpecEnv == InitEnv /\ [][NextEnv]_vars

(***************************************************************************)
(* SpecRollout: the rollout of the scripts.  state = env.reset(), then     *)
(* while not done: env.step(policy.get(state)); counter += 1.  The policy  *)
(* is any policy: each step takes any action.  steps is the counter.       *)
(***************************************************************************)
\* best_solution = 18; if hard_env: best_solution = 40
best_solution(hard_env) == IF hard_env THEN 40 ELSE 18

InitRollout ==
    /\ alg = "rollout" /\ pc = "rollout" /\ args = NoArgs /\ agent = NoAgent
    /\ env \in {reset(GridworldWithObstacles(FALSE)),
                reset(GridworldWithObstacles(TRUE))}
    /\ ret = NoRet
    /\ Idle /\ dp = NoDP

\* one iteration of the while loop
RolloutStep ==
    /\ alg = "rollout" /\ ~ret.done /\ steps < MaxCounter
    /\ \E a \in Actions :
         /\ action' = a
         /\ env' = step(env, a).env
         /\ ret' = step(env, a).ret
    /\ state' = ret'.next_state
    /\ steps' = steps + 1
    /\ UNCHANGED <<alg, agent, args, pc, tableVars, episodes, mcVars, hist, dp>>

NextRollout == RolloutStep

SpecRollout == InitRollout /\ [][NextRollout]_vars

(***************************************************************************)
(* SpecTrain: train() of one learner on the training grid                  *)
(***************************************************************************)
Learners == {"sarsa", "qlearning", "doubleq", "montecarlo"}

InitTrain ==
    /\ alg \in Learners /\ pc = "train"
    /\ agent = IF alg = "montecarlo" THEN ScriptMCAgent ELSE DefaultAgent
    /\ args = [num_episodes |-> NumEpisodes, max_steps |-> MaxSteps]
    /\ env = TrainingGridworld(GridN)
    /\ ret = NoRet
    /\ Idle /\ dp = NoDP

\* a loop over the steps that does not look at done
AfterStepIgnoringDone(done, n) ==
    IF ~StepsLeft(n, args.max_steps) THEN "train" ELSE "loop"

\* where the loop over the steps of an episode goes after n steps
AfterStep(done, n) ==
    IF done \/ ~StepsLeft(n, args.max_steps) THEN "train" ELSE "loop"

\* SarsaAgent.train: state = env.reset(); action = choose_action(state)
SarsaBegin ==
    /\ alg = "sarsa" /\ pc = "train" /\ episodes < args.num_episodes
    /\ env' = reset(env) /\ ret' = NoRet
    /\ state' = env'.agent_pos
    /\ LET q0 == td_initialize_state(Q, state')
       IN  /\ Q' = q0
           /\ action' \in EpsilonGreedy(epsilon, td_greedy(q0, state'))
    /\ steps' = 0
    /\ pc' = IF StepsLeft(0, args.max_steps) THEN "loop" ELSE "train"
    /\ episodes' = IF StepsLeft(0, args.max_steps) THEN episodes ELSE episodes + 1
    /\ UNCHANGED <<alg, agent, args, Q1, Q2, C, pi, mcVars, hist, dp>>

\* SarsaAgent.train: one iteration of the loop over the steps
SarsaStep ==
    /\ alg = "sarsa" /\ pc = "loop"
    /\ LET r  == step(env, action)
           next_state == r.ret.next_state
           q0 == td_initialize_state(Q, next_state)
       IN  /\ env' = r.env /\ ret' = r.ret
           /\ \E next_action \in EpsilonGreedy(epsilon, td_greedy(q0, next_state)) :
                /\ Q' = sarsa_update(q0, state, action, r.ret.reward,
                                     next_state, next_action)
                /\ action' = next_action
                /\ hist' = [hist EXCEPT
                       !.updated = @ \cup {<<state, action>>},
                       !.td = [NoTD EXCEPT
                                 !.state = state, !.action = action,
                                 !.reward = r.ret.reward,
                                 !.next_state = next_state,
                                 !.next_action = next_action, !.Q = q0]]
           /\ state' = next_state
           /\ steps' = steps + 1
           /\ pc' = AfterStep(r.ret.done, steps')
           /\ episodes' = IF pc' = "train" THEN episodes + 1 ELSE episodes
    /\ UNCHANGED <<alg, agent, args, Q1, Q2, C, pi, mcVars, dp>>

\* QLearningAgent.train, DoubleQLearningAgent.train: state = env.reset()
TDBegin ==
    /\ alg \in {"qlearning", "doubleq"} /\ pc = "train" /\ episodes < args.num_episodes
    /\ env' = reset(env) /\ ret' = NoRet
    /\ state' = env'.agent_pos
    /\ steps' = 0
    /\ pc' = IF StepsLeft(0, args.max_steps) THEN "loop" ELSE "train"
    /\ episodes' = IF StepsLeft(0, args.max_steps) THEN episodes ELSE episodes + 1
    /\ UNCHANGED <<alg, agent, args, tableVars, action, mcVars, hist, dp>>

\* QLearningAgent.train: one iteration of the loop over the steps
QLearningStep ==
    /\ alg = "qlearning" /\ pc = "loop"
    /\ LET q0 == td_initialize_state(Q, state)
       IN  \E a \in EpsilonGreedy(epsilon, td_greedy(q0, state)) :
             LET r == step(env, a)
             IN  /\ action' = a
                 /\ env' = r.env /\ ret' = r.ret
                 /\ Q' = q_learning_update(q0, state, a, r.ret.reward,
                                           r.ret.next_state)
                 /\ state' = r.ret.next_state
                 /\ steps' = steps + 1
                 /\ pc' = AfterStep(r.ret.done, steps')
                 /\ episodes' = IF pc' = "train" THEN episodes + 1 ELSE episodes
                 /\ hist' = [hist EXCEPT
                        !.updated = @ \cup {<<state, a>>},
                        !.td = [NoTD EXCEPT
                                  !.state = state, !.action = a,
                                  !.reward = r.ret.reward,
                                  !.next_state = r.ret.next_state, !.Q = q0]]
    /\ UNCHANGED <<alg, agent, args, Q1, Q2, C, pi, mcVars, dp>>

\* DoubleQLearningAgent.train: one iteration of the loop over the steps
DoubleQStep ==
    /\ alg = "doubleq" /\ pc = "loop"
    /\ LET i == dq_initialize_state(Q1, Q2, state)
       IN  \E a \in EpsilonGreedy(epsilon, dq_greedy(i.Q1, i.Q2, state)) :
           \E heads \in BOOLEAN :
             LET r == step(env, a)
                 u == double_q_update(i.Q1, i.Q2, state, a, r.ret.reward,
                                      r.ret.next_state, heads)
             IN  /\ action' = a
                 /\ env' = r.env /\ ret' = r.ret
                 /\ Q1' = u.Q1 /\ Q2' = u.Q2
                 /\ state' = r.ret.next_state
                 /\ steps' = steps + 1
                 /\ pc' = AfterStep(r.ret.done, steps')
                 /\ episodes' = IF pc' = "train" THEN episodes + 1 ELSE episodes
                 /\ hist' = [hist EXCEPT
                        !.updated = @ \cup {<<state, a>>},
                        !.td = [NoTD EXCEPT
                                  !.state = state, !.action = a,
                                  !.reward = r.ret.reward,
                                  !.next_state = r.ret.next_state,
                                  !.heads = heads, !.Q1 = i.Q1, !.Q2 = i.Q2]]
    /\ UNCHANGED <<alg, agent, args, Q, C, pi, mcVars, dp>>

\* MonteCarloAgent.generate_episode, up to its loop
MCBegin ==
    /\ alg = "montecarlo" /\ pc = "train" /\ episodes < args.num_episodes
    /\ env' = reset(env) /\ ret' = NoRet
    /\ state' = env'.agent_pos
    /\ episode' = <<>>
    /\ steps' = 0
    /\ pc' = "generate"
    /\ UNCHANGED <<alg, agent, args, tableVars, action, episodes, t, G, W, hist, dp>>

\* MonteCarloAgent.generate_episode: one iteration of the while loop;
\* behavior_policy draws the action
MCGenerateStep ==
    /\ alg = "montecarlo" /\ pc = "generate"
    /\ ~ret.done /\ StepsLeft(steps, args.max_steps)
    /\ LET i == mc_initialize_state(Q, C, pi, state)
       IN  /\ Q' = i.Q /\ C' = i.C /\ pi' = i.pi
           /\ \E a \in EpsilonGreedy(mc_epsilon, i.pi[state]) :
                LET r == step(env, a)
                IN  /\ action' = a
                    /\ env' = r.env /\ ret' = r.ret
                    /\ episode' = Append(episode,
                           [state |-> state, action |-> a, reward |-> r.ret.reward])
                    /\ state' = r.ret.next_state
    /\ steps' = steps + 1
    /\ UNCHANGED <<alg, agent, args, pc, Q1, Q2, episodes, t, G, W, hist, dp>>

\* generate_episode returns; MonteCarloAgent.update starts: G = 0, W = 1
MCGenerateReturn ==
    /\ alg = "montecarlo" /\ pc = "generate"
    /\ ~(~ret.done /\ StepsLeft(steps, args.max_steps))
    /\ G' = RZero /\ W' = ROne
    /\ t' = Len(episode)
    /\ pc' = IF Len(episode) = 0 THEN "train" ELSE "update"
    /\ episodes' = IF Len(episode) = 0 THEN episodes + 1 ELSE episodes
    /\ hist' = [hist EXCEPT !.Q_call = Q, !.C_call = C, !.last = NoUpd]
    /\ UNCHANGED <<alg, agent, args, envVars, tableVars, state, action, steps, episode, dp>>

\* MonteCarloAgent.update: one iteration of the backward loop
MCUpdateStep ==
    /\ alg = "montecarlo" /\ pc = "update"
    /\ LET e == episode[t]
           i == mc_initialize_state(Q, C, pi, e.state)
           u == mc_update_step(i.Q, i.C, i.pi, e.state, e.action, e.reward, G, W)
           k == <<e.state, e.action>>
           over == u.outcome = "break" \/ t = 1
       IN  /\ Q' = u.Q /\ C' = u.C /\ pi' = u.pi
           /\ G' = u.G /\ W' = u.W
           /\ t' = t - 1
           /\ pc' = IF u.outcome = "ZeroDivisionError" THEN "ZeroDivisionError"
                    ELSE IF over THEN "train" ELSE "update"
           /\ episodes' = IF pc' = "train" THEN episodes + 1 ELSE episodes
           /\ hist' = [hist EXCEPT
                  !.updated = @ \cup {k},
                  !.last = [state |-> e.state, action |-> e.action, t |-> t,
                            G |-> u.G, W |-> W, C_old |-> i.C[e.state][e.action],
                            Q_old |-> i.Q[e.state][e.action],
                            divisor |-> u.divisor, outcome |-> u.outcome],
                  !.sumWG = Put(@, k, RAdd(IF k \in DOMAIN @ THEN @[k] ELSE RZero,
                                           RMul(W, u.G)))]
    /\ UNCHANGED <<alg, agent, args, envVars, Q1, Q2, state, action, steps, episode, dp>>

NextTrain ==
    \/ SarsaBegin \/ SarsaStep
    \/ TDBegin \/ QLearningStep \/ DoubleQStep
    \/ MCBegin \/ MCGenerateStep \/ MCGenerateReturn \/ MCUpdateStep

SpecTrain == InitTrain /\ [][NextTrain]_vars

(***************************************************************************)
(* SpecMC: MonteCarloAgent.train over MCEpisodes episodes                  *)
(***************************************************************************)
InitMC ==
    /\ alg = "montecarlo" /\ pc = "train"
    /\ agent = ScriptMCAgent
    /\ args = [num_episodes |-> MCEpisodes, max_steps |-> MaxSteps]
    /\ env = TrainingGridworld(GridN)
    /\ ret = NoRet
    /\ Idle /\ dp = NoDP

NextMC == MCBegin \/ MCGenerateStep \/ MCGenerateReturn \/ MCUpdateStep

SpecMC == InitMC /\ [][NextMC]_vars

(***************************************************************************)
(* SpecMCLong: MonteCarloAgent.train with episodes of up to MCSteps steps  *)
(***************************************************************************)
InitMCLong ==
    /\ alg = "montecarlo" /\ pc = "train"
    /\ agent = ScriptMCAgent
    /\ args = [num_episodes |-> NumEpisodes, max_steps |-> MCSteps]
    /\ env = TrainingGridworld(GridN)
    /\ ret = NoRet
    /\ Idle /\ dp = NoDP

SpecMCLong == InitMCLong /\ [][NextMC]_vars

(***************************************************************************)
(* SpecNew: a learner is constructed with arbitrary arguments, then trains *)
(***************************************************************************)
\* values passed for alpha, gamma and epsilon: the defaults, and values a
\* learning rate, a discount factor or an exploration rate must not have
AlphaArgs   == {Rat(1, 10), Rat(-1, 10)}
GammaArgs   == {Rat(9, 10), ROne, Rat(3, 2), Rat(-1, 2)}
EpsilonArgs == {Rat(1, 10), Rat(-1, 10)}

InitNew ==
    /\ alg \in Learners /\ pc = "new"
    /\ agent = NoAgent
    /\ args = [num_episodes |-> NumEpisodes, max_steps |-> MaxSteps]
    /\ env = TrainingGridworld(GridN)
    /\ ret = NoRet
    /\ Idle /\ dp = NoDP

\* __init__ of the four learners: the arguments are stored as given; Q (Q1,
\* Q2, C, pi) start empty
Construct ==
    /\ pc = "new"
    /\ \E a \in AlphaArgs, g \in GammaArgs, e \in EpsilonArgs :
         agent' = IF alg = "montecarlo"
                  THEN [gamma |-> g, epsilon |-> e]
                  ELSE [alpha |-> a, gamma |-> g, epsilon |-> e]
    /\ Q' = <<>> /\ Q1' = <<>> /\ Q2' = <<>> /\ C' = <<>> /\ pi' = <<>>
    /\ pc' = "train"
    /\ UNCHANGED <<alg, args, envVars, loopVars, mcVars, hist, dp>>

NextNew == Construct \/ NextTrain

SpecNew == InitNew /\ [][NextNew]_vars

(***************************************************************************)
(* environments.py: DynamicProgrammingGridworld, and                       *)
(* dynamic-programming.py: DynamicProgrammingAgent.  States are <<x, y>>.  *)
(***************************************************************************)
\* self.grid, row y + 1, column x + 1
grid == << <<0, 10, 0, 5, 0>>,
           <<0, 0, 0, 0, 0>>,
           <<0, 0, 0, 0, 0>>,
           <<0, 0, 0, 0, 0>>,
           <<0, 0, 0, 0, 0>> >>
height == Len(grid)
width  == Len(grid)

DPStates == {<<x, y>> : x \in 0..(width - 1), y \in 0..(height - 1)}

Max(a, b) == IF a < b THEN b ELSE a
Min(a, b) == IF a < b THEN a ELSE b

\* DynamicProgrammingAgent._move
_move(s, a) ==
    CASE a = "NORTH" -> <<s[1], Max(s[2] - 1, 0)>>
      [] a = "SOUTH" -> <<s[1], Min(s[2] + 1, height - 1)>>
      [] a = "WEST"  -> <<Max(s[1] - 1, 0), s[2]>>
      [] a = "EAST"  -> <<Min(s[1] + 1, width - 1), s[2]>>
      [] OTHER       -> s

\* the list initialize_transitions stores for (state, action)
transition_entries(s, a) ==
    << [next_state |-> _move(s, a), prob |-> Rat(1, 4),
        reward |-> RInt(grid[s[2] + 1][s[1] + 1])] >>

\* DynamicProgrammingAgent.initialize_transitions
initialize_transitions ==
    [s \in DPStates |-> [a \in Actions |-> transition_entries(s, a)]]

\* defaults of value_iteration and extract_policy
dp_gamma == Rat(9, 10)
phi      == Rat(1, 10000)

\* sum(prob * (reward + gamma * V[next_state]) for ... in transitions[s][a])
RECURSIVE SumReturns(_, _, _)
SumReturns(entries, v, i) ==
    IF i > Len(entries) THEN 0
    ELSE FMul(entries[i].prob,
              Fix(entries[i].reward) + FMul(dp_gamma, v[entries[i].next_state]))
         + SumReturns(entries, v, i + 1)

expected_return(tp, v, s, a) == SumReturns(tp[s][a], v, 1)

\* the largest of a non-empty set of integers
SetMax(S) == CHOOSE x \in S : \A y \in S : y <= x

\* one sweep of value_iteration: new_V and delta
sweep(tp, v) ==
    LET new_V == [s \in DOMAIN tp |->
                    SetMax({expected_return(tp, v, s, a) : a \in Actions})]
    IN  [V |-> new_V,
         delta |-> SetMax({0} \cup {Abs(v[s] - new_V[s]) : s \in DOMAIN tp})]

\* a break test with the comparison reversed
converged_reversed(delta) == delta > Fix(phi)

\* if delta < phi: break
converged(delta) == delta < Fix(phi)

\* an extract_policy that keeps the action of smallest expected return
extract_policy_smallest(tp, v) ==
    [s \in DOMAIN tp |->
        ArgMax([a \in Actions |-> 0 - expected_return(tp, v, s, a)])]

\* DynamicProgrammingAgent.extract_policy: the first action of largest
\* expected return
extract_policy(tp, v) ==
    [s \in DOMAIN tp |->
        ArgMax([a \in Actions |-> expected_return(tp, v, s, a)])]

\* the break test of solve_env
solved(position) == position = <<1, 0>> \/ position = <<3, 0>>

\* DynamicProgrammingAgent(env, start_state), before train()
InitDP ==
    /\ alg = "dp" /\ pc = "value_iteration" /\ args = NoArgs /\ agent = NoAgent
    /\ env = GridworldWithObstacles(FALSE) /\ ret = NoRet
    /\ Idle
    /\ \E start_state \in DPStates :
         dp = [position |-> start_state,
               transition_probabilities |-> initialize_transitions,
               V |-> [s \in DPStates |-> 0],
               policy |-> <<>>,
               delta |-> 0, sweeps |-> 0, steps |-> 0,
               start_state |-> start_state]

\* value_iteration: one iteration of the while loop
DPSweep ==
    /\ alg = "dp" /\ pc = "value_iteration"
    /\ LET u == sweep(dp.transition_probabilities, dp.V)
       IN  /\ dp' = [dp EXCEPT !.V = u.V, !.delta = u.delta, !.sweeps = @ + 1]
           /\ pc' = IF converged(u.delta) THEN "extract_policy"
                    ELSE "value_iteration"
    /\ UNCHANGED <<alg, agent, args, envVars, tableVars, loopVars, mcVars, hist>>

\* train: extract_policy after value_iteration
DPExtractPolicy ==
    /\ alg = "dp" /\ pc = "extract_policy"
    /\ dp' = [dp EXCEPT !.policy = extract_policy(dp.transition_probabilities, dp.V)]
    /\ pc' = "solve_env"
    /\ UNCHANGED <<alg, agent, args, envVars, tableVars, loopVars, mcVars, hist>>

\* solve_env: one iteration of the while loop
DPSolveStep ==
    /\ alg = "dp" /\ pc = "solve_env"
    /\ LET a == dp.policy[dp.position]
           p == _move(dp.position, a)
       IN  /\ dp' = [dp EXCEPT !.position = p, !.steps = @ + 1]
           /\ pc' = IF solved(p) THEN "solved" ELSE "solve_env"
    /\ UNCHANGED <<alg, agent, args, envVars, tableVars, loopVars, mcVars, hist>>

NextDP == DPSweep \/ DPExtractPolicy \/ DPSolveStep

\* the script runs to its end: a step that can be taken is taken
SpecDP == InitDP /\ [][NextDP]_vars /\ WF_vars(NextDP)

(***************************************************************************)
(* Properties of GridworldWithObstacles (SpecEnv)                          *)
(***************************************************************************)
\* the cell p lies outside the grid of e
OutOfBounds(e, p) == p[1] < 0 \/ p[1] >= e.height \/ p[2] < 0 \/ p[2] >= e.width

\* the last call was a step whose target cell was out of bounds or an obstacle
LastStepInvalid ==
    /\ ret.action \in Actions
    /\ LET target == NextPos(ret.pos, ret.action)
       IN  OutOfBounds(env, target) \/ target \in env.obstacles

\* C3: in both layouts, a step whose target cell is out of bounds or an
\* obstacle leaves agent_pos unchanged, returns that position as next_state,
\* and returns the reward of a valid step ending there minus 2: 10 - 2 on the
\* goal, -0.1 - 2 elsewhere.
C3_InvalidMoveStaysAndPays ==
    LastStepInvalid =>
        /\ env.agent_pos = ret.pos
        /\ ret.next_state = ret.pos
        /\ ret.reward = IF ret.pos = env.goal_pos THEN RInt(8) ELSE Rat(-21, 10)

\* a step of the hard layout was blocked by an obstacle, away from the goal
C3_Witness ==
    /\ env.width = 20
    /\ ret.action \in Actions
    /\ NextPos(ret.pos, ret.action) \in env.obstacles
    /\ ret.pos # env.goal_pos

\* C4: step returns done = true exactly when the position after the step is
\* goal_pos; a step with done = true returns more than -0.1 (10 when the move
\* was valid), a step with done = false returns -0.1 or -2.1, so every
\* terminal reward is strictly higher than every non-terminal one.
C4_DoneIffGoalAndHigherReward ==
    ret.action \in Actions =>
        /\ ret.done <=> (env.agent_pos = env.goal_pos)
        /\ ret.done => RLess(Rat(-1, 10), ret.reward)
        /\ (ret.done /\ ~LastStepInvalid) => ret.reward = RInt(10)
        /\ ~ret.done => ret.reward \in {Rat(-1, 10), Rat(-21, 10)}

\* a valid move reached the goal of the default layout
C4_Witness ==
    /\ env.width = 10
    /\ ret.action \in Actions /\ ret.done /\ ret.pos # env.goal_pos
    /\ ret.reward = RInt(10)

(***************************************************************************)
(* Properties of the learners (SpecTrain)                                  *)
(***************************************************************************)
\* every key of table T maps all four actions
FullyPopulated(T) == \A s \in DOMAIN T : DOMAIN T[s] = Actions

\* every entry of T that no update has written holds zero
UnwrittenAreZero(T, zero) ==
    \A s \in DOMAIN T : \A a \in DOMAIN T[s] :
        <<s, a>> \notin hist.updated => T[s][a] = zero

\* C1: in every learner and every reachable state, each state that is a key
\* of Q, Q1, Q2 or C maps all four actions, and an entry holds zero until an
\* update writes it.
C1_TablesFullyPopulated ==
    LET zero == IF alg = "montecarlo" THEN RZero ELSE 0
    IN  /\ FullyPopulated(Q) /\ FullyPopulated(Q1)
        /\ FullyPopulated(Q2) /\ FullyPopulated(C)
        /\ UnwrittenAreZero(Q, zero) /\ UnwrittenAreZero(Q1, zero)
        /\ UnwrittenAreZero(Q2, zero) /\ UnwrittenAreZero(C, zero)

\* Monte Carlo holds two states in Q and C, one entry written, the rest zero
C1_Witness ==
    /\ alg = "montecarlo"
    /\ Cardinality(DOMAIN Q) >= 2 /\ DOMAIN C = DOMAIN Q
    /\ \E k \in hist.updated : Q[k[1]][k[2]] # RZero /\ C[k[1]][k[2]] # RZero

\* C2: an episode takes at most max_steps steps: the Monte Carlo episode holds
\* at most max_steps triples, a training episode of a TD learner calls
\* env.step at most max_steps times; and an episode that ended with fewer
\* steps ended on a step that returned done = true.
C2_EpisodeWithinStepCap ==
    /\ steps <= args.max_steps
    /\ Len(episode) <= args.max_steps
    /\ alg = "montecarlo" /\ pc # "train" => Len(episode) = steps
    /\ LET ended == \/ pc = "train" /\ episodes > 0
                    \/ pc = "update"
       IN  ended /\ steps < args.max_steps => ret.done

\* an episode ended on done before the cap ...
C2_Witness ==
    /\ alg = "sarsa" /\ pc = "train" /\ episodes > 0
    /\ steps < args.max_steps /\ ret.done

(***************************************************************************)
(* Properties of MonteCarloAgent.update (SpecMC)                           *)
(***************************************************************************)
\* the backward loop has run at least one iteration of the current call
Processed == hist.last.action \in Actions

\* C5: in every iteration of update the divisor of W / C(s,a) is C(s,a) after
\* W was added to it, W is strictly positive, so the divisor is strictly
\* positive, also on the first visit of a pair: no division by zero happens.
C5_NoDivisionByZero ==
    /\ pc # "ZeroDivisionError"
    /\ RPos(W)
    /\ Processed =>
         /\ RPos(hist.last.W)
         /\ hist.last.divisor = RAdd(hist.last.C_old, hist.last.W)
         /\ C[hist.last.state][hist.last.action] = hist.last.divisor
         /\ RPos(hist.last.divisor)

\* the first visit of a pair: C(s,a) was 0 when the iteration began
C5_Witness ==
    /\ Processed /\ hist.last.C_old = RZero
    /\ hist.last.divisor = Rat(20, 17)

\* the pair (s, a) is the pair of one of the steps i..Len(episode)
InSuffix(s, a, i) ==
    \E j \in i..Len(episode) : episode[j].state = s /\ episode[j].action = a

\* C6: the backward pass goes on to an earlier step only when the action
\* taken at the step just processed is the greedy action of its state as
\* recomputed after the update; once it differs the pass stops, and the only
\* Q and C entries the call has changed are those of the steps processed
\* (steps t + 1 .. end): the entries of earlier steps are as they were.
C6_EarlyStop ==
    pc \in {"update", "train"} /\ episodes + Len(episode) > 0 =>
        /\ pc = "update" /\ Processed =>
               hist.last.action = pi[hist.last.state]
        /\ Processed /\ hist.last.outcome = "break" =>
               /\ pc = "train"
               /\ hist.last.action # pi[hist.last.state]
        /\ \A s \in DOMAIN hist.Q_call : \A a \in Actions :
               ~InSuffix(s, a, t + 1) =>
                   /\ Q[s][a] = hist.Q_call[s][a]
                   /\ C[s][a] = hist.C_call[s][a]

\* the pass stopped at step 2 of a two-step episode whose first step has
\* another pair, and that pair had been written by an earlier call
C6_Witness ==
    /\ pc = "train" /\ hist.last.outcome = "break" /\ t = 1
    /\ Len(episode) = 2
    /\ ~InSuffix(episode[1].state, episode[1].action, 2)
    /\ hist.C_call[episode[1].state][episode[1].action] # RZero

\* the gamma-discounted sum of the rewards of steps i .. end of the episode
RECURSIVE Return(_, _)
Return(ep, i) ==
    IF i > Len(ep) THEN RZero
    ELSE RAdd(ep[i].reward, RMul(mc_gamma, Return(ep, i + 1)))

\* C7: each iteration of update, with G the discounted return from its step,
\* sets C(s,a) to C_old + W and Q(s,a) to Q_old + (W / C_new) * (G - Q_old);
\* so Q(s,a) is the sum of W_i * G_i over the processed visits of (s,a)
\* divided by C(s,a), and the first processed visit sets Q(s,a) to G.
C7_WeightedMean ==
    /\ Processed =>
         LET u == hist.last
             c_new == RAdd(u.C_old, u.W)
         IN  /\ pc \in {"update", "train"} => u.G = Return(episode, u.t)
             /\ C[u.state][u.action] = c_new
             /\ Q[u.state][u.action] =
                    RAdd(u.Q_old, RMul(RDiv(u.W, c_new), RSub(u.G, u.Q_old)))
             /\ u.C_old = RZero => Q[u.state][u.action] = u.G
    /\ \A s \in DOMAIN Q : \A a \in Actions :
         IF <<s, a>> \in DOMAIN hist.sumWG
         THEN Q[s][a] = RDiv(hist.sumWG[<<s, a>>], C[s][a])
         ELSE Q[s][a] = RZero /\ C[s][a] = RZero

\* second visit of (start, WEST): 6.9 with weight 20/17, then -2.1 with
\* weight 1, whose weighted mean is 1023/370
C7_Witness ==
    /\ Processed /\ hist.last.state = <<0, 0>> /\ hist.last.action = "WEST"
    /\ hist.last.C_old = Rat(20, 17) /\ hist.last.Q_old = Rat(69, 10)
    /\ hist.last.G = Rat(-21, 10) /\ hist.last.W = ROne
    /\ Q[<<0, 0>>]["WEST"] = Rat(1023, 370)

(***************************************************************************)
(* Properties of DynamicProgrammingAgent (SpecDP)                          *)
(***************************************************************************)
\* C8: value_iteration on the 5x5 grid terminates: the loop is left after at
\* most 8 sweeps, and it is left only when the largest absolute change of
\* the last completed sweep is below phi.
C8_ValueIterationTerminates ==
    /\ <>(pc # "value_iteration")
    /\ [](dp.sweeps <= 8)
    /\ [](pc # "value_iteration" => dp.sweeps > 0 /\ dp.delta < Fix(phi))

\* the loop was left after the eighth sweep, which still changed a value
C8_Witness ==
    pc = "extract_policy" /\ dp.sweeps = 8 /\ dp.delta > 0

\* Manhattan distance from s to the nearer of the reward cells (1,0), (3,0)
Dist(s) == Min(Abs(s[1] - 1) + s[2], Abs(s[1] - 3) + s[2])

\* the state reached from s by k moves of the policy
RECURSIVE Walk(_, _, _)
Walk(policy, s, k) ==
    IF k = 0 THEN s ELSE Walk(policy, _move(s, policy[s]), k - 1)

\* C9: after train, from every cell the policy reaches a reward cell in
\* exactly as many moves as the Manhattan distance to the nearer reward cell
\* and not sooner, and solve_env stops: from its start cell it takes that
\* many steps (one step when it starts on a reward cell).
C9_PolicyShortestPath ==
    pc \in {"solve_env", "solved"} =>
        /\ \A s \in DPStates :
             /\ solved(Walk(dp.policy, s, Dist(s)))
             /\ \A k \in 0..(Dist(s) - 1) : ~solved(Walk(dp.policy, s, k))
        /\ pc = "solve_env" => dp.steps < Max(1, Dist(dp.start_state))
        /\ pc = "solved" => /\ dp.steps = Max(1, Dist(dp.start_state))
                            /\ solved(dp.position)

\* solve_env went from the far corner to (3,0) in five steps
C9_Witness ==
    /\ pc = "solved" /\ dp.start_state = <<4, 4>>
    /\ dp.steps = 5 /\ dp.position = <<3, 0>>

\* the sum of the probabilities of a list of transition entries
RECURSIVE SumProb(_, _)
SumProb(entries, i) ==
    IF i > Len(entries) THEN RZero
    ELSE RAdd(entries[i].prob, SumProb(entries, i + 1))

\* C10: in the transition model built by initialize_transitions, for every
\* state and every action the probabilities of the listed entries sum to 1.
C10_ProbabilitiesSumToOne ==
    \A s \in DOMAIN dp.transition_probabilities : \A a \in Actions :
        SumProb(dp.transition_probabilities[s][a], 1) = ROne

(***************************************************************************)
(* Properties of the constructors (SpecNew)                                *)
(***************************************************************************)
\* gamma in [0, 1), alpha >= 0 where the learner has one, epsilon >= 0
ValidConfiguration(cfg) ==
    /\ ~RLess(cfg.gamma, RZero) /\ RLess(cfg.gamma, ROne)
    /\ "alpha" \in DOMAIN cfg => ~RLess(cfg.alpha, RZero)
    /\ ~RLess(cfg.epsilon, RZero)

\* C11: a learner object exists only with gamma in [0, 1), alpha >= 0 and
\* epsilon >= 0: the constructor rejects any other arguments, so no update
\* of a table is ever made by a learner that holds such values.
C11_ConstructionValidates ==
    agent # NoAgent => ValidConfiguration(agent)

(***************************************************************************)
(* Properties of the temporal-difference learners (SpecTrain)              *)
(***************************************************************************)
\* a SARSA update has been made
SarsaUpdated == alg = "sarsa" /\ hist.td.action \in Actions

\* the latest SARSA update bootstrapped on the value of the chosen a', and
\* a' is the action the loop holds for its next step
SarsaBootstrapsOnChosen ==
    SarsaUpdated =>
        LET u    == hist.td
            old  == u.Q[u.state][u.action]
            boot == u.Q[u.next_state][u.next_action]
        IN  /\ u.next_action \in
                   EpsilonGreedy(epsilon, ArgMax(u.Q[u.next_state]))
            /\ Q = [u.Q EXCEPT ![u.state][u.action] =
                       old + FMul(alpha, Fix(u.reward) + FMul(gamma, boot) - old)]
            /\ pc = "loop" /\ steps > 0 =>
                   action = u.next_action /\ state = u.next_state

\* an env.step call of SarsaAgent.train is given the action the loop holds
SarsaStepsWithChosen ==
    alg = "sarsa" /\ pc = "loop" /\ steps' = steps + 1 =>
        /\ ret'.action = action
        /\ steps > 0 => ret'.action = hist.td.next_action

\* C12: in SarsaAgent.train the next action a' is drawn by the epsilon-greedy
\* policy from the table as it is before the update, the update moves
\* Q(s,a) toward reward + gamma * Q(s',a') for that a' and changes no other
\* entry, and when the episode goes on the next env.step is given that a'.
C12_SarsaOnPolicy ==
    []SarsaBootstrapsOnChosen /\ [][SarsaStepsWithChosen]_vars

\* the second update of an episode bootstrapped on an a' that is not greedy
\* and whose value is below the largest value of the next state
C12_Witness ==
    /\ SarsaUpdated /\ steps = 2
    /\ LET u == hist.td
           best == ArgMax(u.Q[u.next_state])
       IN  /\ u.next_action # best
           /\ u.Q[u.next_state][u.next_action] < u.Q[u.next_state][best]

\* a Double Q-learning update has been made
DoubleQUpdated == alg = "doubleq" /\ hist.td.action \in Actions

\* row s of table T, a row of zeros when T has no row s
RowOrZero(T, s) == IF s \in DOMAIN T THEN T[s] ELSE ZeroRow(0)

\* C13: the latest double_q_update changed no value but that of (state,
\* action) in one table: Q1 on heads, Q2 on tails.  The new value is the old
\* one moved by alpha toward reward + gamma * E[next_state][b], with b the
\* first best action of next_state in the updated table and E the other
\* table; every other entry of both tables is as it was when the update was
\* called, a row added for next_state holds zeros, and Q1 and Q2 have the
\* same state keys.
C13_DoubleQSingleEntry ==
    /\ DOMAIN Q1 = DOMAIN Q2
    /\ DoubleQUpdated =>
         LET u       == hist.td
             sel     == IF u.heads THEN u.Q1 ELSE u.Q2
             eval    == IF u.heads THEN u.Q2 ELSE u.Q1
             updated == IF u.heads THEN Q1 ELSE Q2
             other   == IF u.heads THEN Q2 ELSE Q1
             best    == ArgMax(RowOrZero(sel, u.next_state))
             target  == Fix(u.reward)
                          + FMul(gamma, RowOrZero(eval, u.next_state)[best])
             old     == sel[u.state][u.action]
         IN  /\ DOMAIN Q1 = DOMAIN u.Q1 \cup {u.next_state}
             /\ \A s \in DOMAIN updated : \A a \in Actions :
                    updated[s][a] =
                        IF s = u.state /\ a = u.action
                        THEN old + FMul(alpha, target - old)
                        ELSE RowOrZero(sel, s)[a]
             /\ \A s \in DOMAIN other : \A a \in Actions :
                    other[s][a] = RowOrZero(eval, s)[a]

\* an update on tails whose next action has different values in Q1 and Q2
C13_Witness ==
    /\ DoubleQUpdated /\ ~hist.td.heads
    /\ LET u    == hist.td
           best == ArgMax(RowOrZero(u.Q2, u.next_state))
       IN  /\ RowOrZero(u.Q1, u.next_state)[best] # RowOrZero(u.Q2, u.next_state)[best]
           /\ Q2[u.state][u.action] # u.Q2[u.state][u.action]

\* the tables of the running temporal-difference learner
TDTables == IF alg = "doubleq" THEN {Q1, Q2} ELSE {Q}

\* C18: in SarsaAgent.train, QLearningAgent.train and
\* DoubleQLearningAgent.train no update is made for a pair whose state is the
\* goal, every value stored for the goal state is 0, and the update made for
\* a transition that returned done = true moved its entry toward the reward
\* alone: new = old + alpha * (reward - old).
C18_TerminalNeverUpdated ==
    alg \in {"sarsa", "qlearning", "doubleq"} =>
        /\ \A k \in hist.updated : k[1] # env.goal_pos
        /\ \A T \in TDTables :
               env.goal_pos \in DOMAIN T =>
                   \A a \in Actions : T[env.goal_pos][a] = 0
        /\ ret.done =>
               LET u      == hist.td
                   before == IF alg # "doubleq" THEN u.Q
                             ELSE IF u.heads THEN u.Q1 ELSE u.Q2
                   after  == IF alg # "doubleq" THEN Q
                             ELSE IF u.heads THEN Q1 ELSE Q2
                   old    == before[u.state][u.action]
               IN  /\ u.action = ret.action /\ u.next_state = env.goal_pos
                   /\ after[u.state][u.action] =
                          old + FMul(alpha, Fix(u.reward) - old)

\* Double Q-learning reached the goal on its second step: the goal has its
\* row of zeros in both tables and the update moved a value by alpha * 10
C18_Witness ==
    /\ alg = "doubleq" /\ ret.done /\ steps = 2 /\ hist.td.heads
    /\ env.goal_pos \in DOMAIN Q1 /\ env.goal_pos \in DOMAIN Q2
    /\ hist.td.reward = RInt(10)
    /\ Q1[hist.td.state][hist.td.action]
           = hist.td.Q1[hist.td.state][hist.td.action] + Fix(ROne)

(***************************************************************************)
(* Properties of the transition model (SpecDP)                             *)
(***************************************************************************)
\* the grid value of cell s = <<x, y>>
GridValue(s) == grid[s[2] + 1][s[1] + 1]

\* C14: every entry of the transition model records, as its reward, the grid
\* value of the cell the move leads to (next_state): 10 on the transitions
\* that enter (1,0) and 5 on those that enter (3,0).
C14_RewardOfCellMovedTo ==
    \A s \in DOMAIN dp.transition_probabilities : \A a \in Actions :
        \A i \in 1..Len(dp.transition_probabilities[s][a]) :
            LET e == dp.transition_probabilities[s][a][i]
            IN  e.reward = RInt(GridValue(e.next_state))

(***************************************************************************)
(* Properties of the layouts (SpecRollout)                                 *)
(***************************************************************************)
\* the positions one env.step call leads to from a position of S
StepSuccessors(e, S) ==
    {step([e EXCEPT !.agent_pos = p], a).ret.next_state : p \in S, a \in Actions}

\* breadth-first search: frontier holds the positions first reached by k
\* step calls; the result is the least number of calls that reach the goal,
\* -1 when no sequence of calls reaches it
RECURSIVE StepsToGoal(_, _, _, _)
StepsToGoal(e, seen, frontier, k) ==
    IF e.goal_pos \in frontier THEN k
    ELSE IF frontier = {} THEN -1
    ELSE LET new == StepSuccessors(e, frontier) \ seen
         IN  StepsToGoal(e, seen \cup new, new, k + 1)

ShortestPath(e) == StepsToGoal(e, {e.start_pos}, {e.start_pos}, 0)

\* C15: in both layouts start and goal are free cells, the goal can be
\* reached from the start, the least number of env.step calls from reset()
\* to done = true is 18 in the default layout and 40 in the hard one, and no
\* rollout, whatever its policy, gets done = true with fewer calls.
C15_ShortestPathLength ==
    LET best == best_solution(env.width = 20)
    IN  /\ env.start_pos \notin env.obstacles
        /\ env.goal_pos \notin env.obstacles
        /\ steps = 0 => ShortestPath(env) = best
        /\ ret.done => steps >= best

\* a rollout of the hard layout got done = true at its 40th step
C15_Witness ==
    alg = "rollout" /\ env.width = 20 /\ ret.done /\ steps = 40

(***************************************************************************)
(* Properties of the Monte Carlo target policy and weight (SpecMC)         *)
(***************************************************************************)
\* action a is the first of ActionList whose value in row is the largest
FirstLargest(row, a) ==
    \E i \in 1..Len(ActionList) :
        /\ a = ActionList[i]
        /\ \A j \in 1..Len(ActionList) : ~RLess(row[a], row[ActionList[j]])
        /\ \A j \in 1..(i - 1) : RLess(row[ActionList[j]], row[a])

\* C16: between the steps of MonteCarloAgent (after initialize_state, after
\* each step of generate_episode, after each iteration of update) Q, C and
\* pi have the same state keys, and for every state s of Q, pi[s] is the
\* first action in the order NORTH, SOUTH, WEST, EAST whose value Q[s][a] is
\* the largest of the row.
C16_PolicyGreedyInQ ==
    alg = "montecarlo" =>
        /\ DOMAIN Q = DOMAIN C /\ DOMAIN C = DOMAIN pi
        /\ \A s \in DOMAIN Q : FirstLargest(Q[s], pi[s])

\* two states are known, an update has made EAST the policy of the start,
\* and the other state's policy has moved on from a lowered first action
C16_Witness ==
    /\ alg = "montecarlo" /\ Cardinality(DOMAIN Q) >= 2
    /\ pi[<<0, 0>>] = "EAST" /\ RPos(Q[<<0, 0>>]["EAST"])
    /\ \E s \in DOMAIN Q : pi[s] = "SOUTH" /\ RLess(Q[s]["NORTH"], RZero)

\* p to the power k
RECURSIVE RPow(_, _)
RPow(p, k) == IF k = 0 THEN ROne ELSE RMul(p, RPow(p, k - 1))

\* exploration rates from 0 to 1
EpsilonRange == {Rat(i, 4) : i \in 0..4}

\* C17: in update the weight is divided only when the step's action is
\* pi[state], and then by 1 - epsilon + epsilon/|A|, never by epsilon/|A|:
\* an iteration that goes on leaves W = W_before / (1 - epsilon + epsilon/|A|),
\* an iteration that stops leaves W as it was, so after k iterations that
\* went on W = (1 / (1 - epsilon + epsilon/|A|))^k.  For epsilon from 0 to 1
\* that divisor is positive and at most 1, so W never decreases.
C17_WeightDividedByGreedyProb ==
    /\ \A e \in EpsilonRange :
          /\ RPos(behavior_policy_prob(e, TRUE))
          /\ ~RLess(ROne, behavior_policy_prob(e, TRUE))
    /\ alg = "montecarlo" /\ pc \in {"update", "train"} /\ Processed =>
          LET u      == hist.last
              greedy == behavior_policy_prob(mc_epsilon, TRUE)
              k      == Len(episode) - u.t
          IN  /\ u.W = RPow(RDiv(ROne, greedy), k)
              /\ u.outcome = "continue" =>
                     /\ u.action = pi[u.state]
                     /\ W = RDiv(u.W, greedy)
                     /\ W = RPow(RDiv(ROne, greedy), k + 1)
              /\ u.outcome = "break" =>
                     /\ u.action # pi[u.state]
                     /\ W = u.W
              /\ u.outcome \in {"continue", "break"}
              /\ ~RLess(W, u.W)

\* three iterations went on: W = (20/17)^3
C17_Witness ==
    /\ alg = "montecarlo" /\ pc = "train" /\ Processed
    /\ Len(episode) = 3 /\ hist.last.t = 1 /\ hist.last.outcome = "continue"
    /\ W = Rat(8000, 4913)

====
